---------------------------- MODULE Spec2Model ----------------------------
(***************************************************************************)
(* Model of the LineageViewer extraction and loading scripts:              *)
(*   src/fixed_comprehensive_extractor.py  (FixedComprehensiveExtractor)   *)
(*   src/working_comprehensive_loader.py   (OpenLineage event assembler)   *)
(*                                                                         *)
(* Text is modelled as a sequence of one-character strings, so that the    *)
(* character loops and substring tests of the source are computed as the   *)
(* source computes them.                                                   *)
(***************************************************************************)
EXTENDS Integers, Sequences, FiniteSets, TLC

VARIABLES
    \* _parse_select_clause, run on one projection list
    select_clause,   \* the argument
    pos,             \* number of characters of select_clause already scanned
    parts,           \* list `parts`
    current_part,    \* string `current_part`
    paren_count,     \* counter `paren_count`
    part_idx,        \* number of parts already handled by the alias loop
    columns,         \* dict `columns`, as an insertion-ordered list of <<key, value>>
    pc,              \* "scan" | "alias" | "done" | "raised"
    \* _classify_transform, run on one expression
    transform_text,  \* the argument `transform`
    transform_type,  \* the returned tag, "" before the call returns
    \* FixedComprehensiveExtractor, run on one file tree
    tree,            \* the files under lineage_dir, in traversal order
    worklist,        \* the parser calls extract_all_transforms has still to make
    transforms,      \* self.transforms
    datasets,        \* self.datasets
    jobs,            \* self.jobs
    error_log,       \* paths of the files whose parser printed an error, in order
    results,         \* the dicts extract_all_transforms returned, each as returned
    run_kind,        \* per run: "new" (fresh extractor object) or "same" (reused)
    run_pc,          \* "extracting" | "returned"
    \* create_job_lineage_event, run on one job and its Transforms
    job_info,        \* the argument job_info
    job_transforms,  \* the argument transforms
    event,           \* the OpenLineage event built, <<>> before
    response_status, \* status code of the sink's response to the event, 0 before
    assemble_pc,     \* "call" | "sent"
    \* main of the loader, run against one sink
    main_pc,         \* "start" | "loading" | "loaded" | "failed" | "raised"
    namespace_status,\* status code of the sink's response to the namespace request, 0 before
    job_index,       \* number of sample jobs the loop has already handled
    attempts,        \* the lineage events posted to the sink, with the sink's answers, in order
    delivered        \* names of the jobs whose event the sink holds

splitVars == <<select_clause, pos, parts, current_part, paren_count, part_idx, columns, pc>>
classVars == <<transform_text, transform_type>>

extractVars == <<tree, worklist, transforms, datasets, jobs, error_log, results,
                 run_kind, run_pc>>

assembleVars == <<job_info, job_transforms, event, response_status, assemble_pc>>

loadVars == <<main_pc, namespace_status, job_index, attempts, delivered>>

vars == <<splitVars, classVars, extractVars, assembleVars, loadVars>>

---------------------------------------------------------------------------
(* Bounds of the model                                                     *)

MaxClauseLen == 5      \* longest projection list, in characters, of the character inputs
MaxAliasTokens == 4    \* longest projection list, in tokens, of the alias inputs

---------------------------------------------------------------------------
(* Python str operations on character sequences                            *)

LowerLetters == <<"a","b","c","d","e","f","g","h","i","j","k","l","m",
                  "n","o","p","q","r","s","t","u","v","w","x","y","z">>
UpperLetters == <<"A","B","C","D","E","F","G","H","I","J","K","L","M",
                  "N","O","P","Q","R","S","T","U","V","W","X","Y","Z">>

UpperChar(c) ==
    IF \E i \in 1..26 : LowerLetters[i] = c
    THEN UpperLetters[CHOOSE i \in 1..26 : LowerLetters[i] = c]
    ELSE c

LowerChar(c) ==
    IF \E i \in 1..26 : UpperLetters[i] = c
    THEN LowerLetters[CHOOSE i \in 1..26 : UpperLetters[i] = c]
    ELSE c

\* str.upper()
Upper(s) == [i \in 1..Len(s) |-> UpperChar(s[i])]

\* str.lower()
Lower(s) == [i \in 1..Len(s) |-> LowerChar(s[i])]

IsSpace(c) == c = " "

\* str.strip()
Strip(s) ==
    LET keep == {i \in 1..Len(s) : ~IsSpace(s[i])}
    IN  IF keep = {} THEN <<>>
        ELSE LET lo == CHOOSE i \in keep : \A j \in keep : i <= j
                 hi == CHOOSE i \in keep : \A j \in keep : j <= i
             IN  SubSeq(s, lo, hi)

\* sub occurs in s at index i
OccursAt(s, sub, i) ==
    /\ i >= 1
    /\ i + Len(sub) - 1 <= Len(s)
    /\ \A k \in 1..Len(sub) : s[i + k - 1] = sub[k]

\* str.find(), 1-based, 0 when sub does not occur
Find(s, sub) ==
    LET hits == {i \in 1..Len(s) : OccursAt(s, sub, i)}
    IN  IF hits = {} THEN 0 ELSE CHOOSE i \in hits : \A j \in hits : i <= j

\* the `in` operator on strings
Contains(s, sub) == Find(s, sub) # 0

\* str.split(sep, 1): one piece when sep does not occur, else two
Split1(s, sep) ==
    LET i == Find(s, sep)
    IN  IF i = 0 THEN <<s>>
        ELSE <<SubSeq(s, 1, i - 1), SubSeq(s, i + Len(sep), Len(s))>>

\* concatenation of a list of strings
RECURSIVE Concat(_)
Concat(ss) == IF ss = <<>> THEN <<>> ELSE Head(ss) \o Concat(Tail(ss))

---------------------------------------------------------------------------
(* _parse_select_clause: the splitting loop                                *)

\* state of the loop before the first character (lines 327-329)
SplitStart == [parts |-> <<>>, current_part |-> <<>>, paren_count |-> 0]

\* one iteration of `for char in select_clause` (lines 331-340)
ScanCharNoDepth(st, char) ==
    IF char = ","
    THEN [parts |-> Append(st.parts, Strip(st.current_part)),
          current_part |-> <<>>,
          paren_count |-> st.paren_count]
    ELSE [parts |-> st.parts,
          current_part |-> Append(st.current_part, char),
          paren_count |-> st.paren_count]

\* the same iteration with the counter clamped at zero
ScanCharClamped(st, char) ==
    IF char = "," /\ st.paren_count = 0
    THEN [parts |-> Append(st.parts, Strip(st.current_part)),
          current_part |-> <<>>,
          paren_count |-> st.paren_count]
    ELSE [parts |-> st.parts,
          current_part |-> Append(st.current_part, char),
          paren_count |-> IF char = "(" THEN st.paren_count + 1
                          ELSE IF char = ")" /\ st.paren_count > 0 THEN st.paren_count - 1
                          ELSE st.paren_count]

\* the same iteration with ')' not counted
ScanCharNoClose(st, char) ==
    IF char = "," /\ st.paren_count = 0
    THEN [parts |-> Append(st.parts, Strip(st.current_part)),
          current_part |-> <<>>,
          paren_count |-> st.paren_count]
    ELSE [parts |-> st.parts,
          current_part |-> Append(st.current_part, char),
          paren_count |-> IF char = "(" THEN st.paren_count + 1 ELSE st.paren_count]

ScanChar(st, char) ==
    IF char = "," /\ st.paren_count = 0
    THEN [parts |-> Append(st.parts, Strip(st.current_part)),
          current_part |-> <<>>,
          paren_count |-> st.paren_count]
    ELSE [parts |-> st.parts,
          current_part |-> Append(st.current_part, char),
          paren_count |-> IF char = "(" THEN st.paren_count + 1
                          ELSE IF char = ")" THEN st.paren_count - 1
                          ELSE st.paren_count]

\* the final pending segment (lines 342-343)
EmitFinal(st) ==
    IF Strip(st.current_part) # <<>>
    THEN Append(st.parts, Strip(st.current_part))
    ELSE st.parts

RECURSIVE ScanAll(_, _)
ScanAll(st, text) ==
    IF text = <<>> THEN st ELSE ScanAll(ScanChar(st, Head(text)), Tail(text))

\* lines 327-343 as a function of the projection list
SplitParts(text) == EmitFinal(ScanAll(SplitStart, text))

---------------------------------------------------------------------------
(* _parse_select_clause: the alias loop                                    *)

KwUpper == <<" ", "A", "S", " ">>
KwLower == <<" ", "a", "s", " ">>

\* columns[key] = value on an insertion-ordered dict
DictSet(d, key, value) ==
    IF \E i \in 1..Len(d) : d[i][1] = key
    THEN [i \in 1..Len(d) |-> IF d[i][1] = key THEN <<key, value>> ELSE d[i]]
    ELSE Append(d, <<key, value>>)

DictKeys(d) == {d[i][1] : i \in 1..Len(d)}

\* one iteration of `for part in parts` (lines 345-355); raised = the tuple
\* unpacking of line 348 or 351 got a single piece (ValueError)
AliasPart(cols, rawPart) ==
    LET part == Strip(rawPart)
    IN  IF Contains(Upper(part), KwUpper)
        THEN LET pieces == Split1(part, KwUpper)
             IN  IF Len(pieces) # 2
                 THEN [raised |-> TRUE, columns |-> cols]
                 ELSE [raised |-> FALSE,
                       columns |-> DictSet(cols, Strip(pieces[2]), Strip(pieces[1]))]
        ELSE IF Contains(part, KwLower)
        THEN LET pieces == Split1(part, KwLower)
             IN  IF Len(pieces) # 2
                 THEN [raised |-> TRUE, columns |-> cols]
                 ELSE [raised |-> FALSE,
                       columns |-> DictSet(cols, Strip(pieces[2]), Strip(pieces[1]))]
        ELSE [raised |-> FALSE, columns |-> DictSet(cols, part, part)]

RECURSIVE AliasAll(_, _)
AliasAll(cols, ps) ==
    IF ps = <<>> THEN [raised |-> FALSE, columns |-> cols]
    ELSE LET r == AliasPart(cols, Head(ps))
         IN  IF r.raised THEN r ELSE AliasAll(r.columns, Tail(ps))

\* _parse_select_clause as a function: the returned dict, or the exception
ParseSelectClause(text) == AliasAll(<<>>, SplitParts(text))

---------------------------------------------------------------------------
(* Inputs of the splitter specification                                    *)

ClauseAlphabet == {"x", ",", "(", ")", " "}

CharClauses == UNION {[1..n -> ClauseAlphabet] : n \in 0..MaxClauseLen}

AliasTokens == {<<"x">>, <<"y">>, <<",">>, KwUpper, KwLower,
                <<" ", "A", "s", " ">>, <<" ", "a", "S", " ">>}

AliasClauses ==
    {Concat(ts) : ts \in UNION {[1..n -> AliasTokens] : n \in 1..MaxAliasTokens}}

---------------------------------------------------------------------------
(* _parse_select_clause as a state machine                                 *)

\* the classifier is not running
ClassIdle ==
    /\ transform_text = <<>>
    /\ transform_type = ""

SplitIdle ==
    /\ select_clause = <<>>
    /\ pos = 0
    /\ parts = <<>>
    /\ current_part = <<>>
    /\ paren_count = 0
    /\ part_idx = 0
    /\ columns = <<>>
    /\ pc = "idle"

\* main of the loader is not running
LoadIdle ==
    /\ main_pc = "idle"
    /\ namespace_status = 0
    /\ job_index = 0
    /\ attempts = <<>>
    /\ delivered = {}

\* create_job_lineage_event is not running
AssembleIdle ==
    /\ job_info = <<>>
    /\ job_transforms = <<>>
    /\ event = <<>>
    /\ response_status = 0
    /\ assemble_pc = "idle"

\* no extractor object exists
ExtractIdle ==
    /\ tree = <<>>
    /\ worklist = <<>>
    /\ transforms = <<>>
    /\ datasets = <<>>
    /\ jobs = <<>>
    /\ error_log = <<>>
    /\ results = <<>>
    /\ run_kind = <<>>
    /\ run_pc = "idle"

SplitInit ==
    /\ select_clause \in CharClauses \cup AliasClauses
    /\ pos = 0
    /\ parts = SplitStart.parts
    /\ current_part = SplitStart.current_part
    /\ paren_count = SplitStart.paren_count
    /\ part_idx = 0
    /\ columns = <<>>
    /\ pc = "scan"
    /\ ClassIdle
    /\ ExtractIdle
    /\ AssembleIdle
    /\ LoadIdle

\* the loop body for the next character
ScanStep ==
    /\ pc = "scan"
    /\ pos < Len(select_clause)
    /\ LET st == ScanChar([parts |-> parts, current_part |-> current_part,
                           paren_count |-> paren_count], select_clause[pos + 1])
       IN  /\ parts' = st.parts
           /\ current_part' = st.current_part
           /\ paren_count' = st.paren_count
    /\ pos' = pos + 1
    /\ UNCHANGED <<select_clause, part_idx, columns, pc, classVars, extractVars, assembleVars, loadVars>>

\* end of the loop: the final pending segment
ScanEnd ==
    /\ pc = "scan"
    /\ pos = Len(select_clause)
    /\ parts' = EmitFinal([parts |-> parts, current_part |-> current_part,
                           paren_count |-> paren_count])
    /\ pc' = "alias"
    /\ UNCHANGED <<select_clause, pos, current_part, paren_count, part_idx, columns, classVars, extractVars, assembleVars, loadVars>>

\* the alias loop body for the next part
AliasStep ==
    /\ pc = "alias"
    /\ part_idx < Len(parts)
    /\ LET r == AliasPart(columns, parts[part_idx + 1])
       IN  /\ columns' = r.columns
           /\ pc' = IF r.raised THEN "raised" ELSE "alias"
    /\ part_idx' = part_idx + 1
    /\ UNCHANGED <<select_clause, pos, parts, current_part, paren_count, classVars, extractVars, assembleVars, loadVars>>

\* return columns
AliasEnd ==
    /\ pc = "alias"
    /\ part_idx = Len(parts)
    /\ pc' = "done"
    /\ UNCHANGED <<select_clause, pos, parts, current_part, paren_count, part_idx, columns, classVars, extractVars, assembleVars, loadVars>>

SplitNext == ScanStep \/ ScanEnd \/ AliasStep \/ AliasEnd

SpecSplit == SplitInit /\ [][SplitNext]_vars

---------------------------------------------------------------------------
(* Claims about the Clause Splitter                                        *)

\* parenthesis depth after the first n characters of text
Depth(text, n) ==
    Cardinality({i \in 1..n : text[i] = "("}) - Cardinality({i \in 1..n : text[i] = ")"})

Balanced(text) ==
    /\ \A n \in 0..Len(text) : Depth(text, n) >= 0
    /\ Depth(text, Len(text)) = 0

\* positions of the commas at parenthesis depth zero
TopLevelCommaAt(text) == {i \in 1..Len(text) : text[i] = "," /\ Depth(text, i - 1) = 0}

TopLevelCommas(text) == Cardinality(TopLevelCommaAt(text))

\* the text after the last depth-zero comma (the whole text when there is none)
LastPiece(text) ==
    LET cs == TopLevelCommaAt(text)
        last == IF cs = {} THEN 0 ELSE CHOOSE i \in cs : \A j \in cs : j <= i
    IN  SubSeq(text, last + 1, Len(text))

ScanFinished == pc \in {"alias", "done", "raised"}

\* C1 as stated: for every balanced projection list the splitting loop returns
\* exactly (number of depth-zero commas + 1) segments, trailing comma and empty
\* segments included.
C1_SegmentsAreCommasPlusOne ==
    (ScanFinished /\ Balanced(select_clause))
        => Len(parts) = TopLevelCommas(select_clause) + 1

\* C1 amended: for every balanced projection list the splitting loop returns one
\* segment per depth-zero comma, plus one for the text after the last depth-zero
\* comma only when that text is not blank; nesting inside a segment never counts.
C1_SegmentsAreCommasPlusNonBlankTail ==
    (ScanFinished /\ Balanced(select_clause))
        => Len(parts) = TopLevelCommas(select_clause)
                        + (IF Strip(LastPiece(select_clause)) = <<>> THEN 0 ELSE 1)

\* C1 witness: a balanced list with a comma inside parentheses, a depth-zero comma
\* and a blank tail has been split.
C1_Witness ==
    /\ pc = "done"
    /\ Balanced(select_clause)
    /\ TopLevelCommas(select_clause) = 1
    /\ Cardinality({i \in 1..Len(select_clause) : select_clause[i] = ","}) = 2
    /\ Strip(LastPiece(select_clause)) = <<>>
    /\ Len(parts) = 1

\* the k-th depth-zero comma of the text; position 0 for k = 0 and the position
\* after the end for k past the last comma
CommaBound(text, k) ==
    LET cs == TopLevelCommaAt(text)
    IN  IF k = 0 THEN 0
        ELSE IF k > Cardinality(cs) THEN Len(text) + 1
        ELSE CHOOSE i \in cs : Cardinality({j \in cs : j < i}) = k - 1

\* the trimmed pieces of the text delimited by its depth-zero commas, in order
Pieces(text) ==
    [k \in 1..(TopLevelCommas(text) + 1) |->
        Strip(SubSeq(text, CommaBound(text, k - 1) + 1, CommaBound(text, k) - 1))]

\* every segment has balanced parentheses and no comma at its own depth zero
SegmentsWhole(segments) ==
    \A i \in 1..Len(segments) :
        Balanced(segments[i]) /\ TopLevelCommaAt(segments[i]) = {}

\* C14 as stated: for every balanced projection list no split happens at a comma
\* inside parentheses: every segment is balanced and has no depth-zero comma, and
\* the segments in order are the trimmed pieces between the depth-zero commas.
C14_SegmentsArePieces ==
    (ScanFinished /\ Balanced(select_clause))
        => /\ SegmentsWhole(parts)
           /\ parts = Pieces(select_clause)

\* C14 amended: for every balanced projection list every segment is balanced and
\* has no depth-zero comma, and the segments in order are the trimmed pieces
\* delimited by the depth-zero commas, except that the piece after the last
\* depth-zero comma is left out when it is blank.
C14_SegmentsArePiecesButBlankTail ==
    (ScanFinished /\ Balanced(select_clause))
        => /\ SegmentsWhole(parts)
           /\ parts = IF Strip(LastPiece(select_clause)) = <<>>
                      THEN SubSeq(Pieces(select_clause), 1, TopLevelCommas(select_clause))
                      ELSE Pieces(select_clause)

\* C14 witness: a balanced list with a comma inside parentheses and a depth-zero
\* comma between two non-blank pieces has been split in two.
C14_Witness ==
    /\ pc = "done"
    /\ Balanced(select_clause)
    /\ \E i \in 1..Len(select_clause) : select_clause[i] = "," /\ Depth(select_clause, i - 1) > 0
    /\ TopLevelCommas(select_clause) = 1
    /\ Len(parts) = 2
    /\ parts[1] # <<>>
    /\ parts[2] # <<>>

\* the segments the scan has emitted after n characters: the trimmed pieces
\* before each comma met at depth exactly zero
PiecesBefore(text, n) ==
    LET met == Cardinality({i \in TopLevelCommaAt(text) : i <= n})
    IN  SubSeq(Pieces(text), 1, met)

\* C19: the depth counter is never clamped at zero: it is the number of '('
\* minus the number of ')' scanned, also when negative; a comma is a separator
\* exactly when that difference is zero, so after an unmatched ')' the commas
\* stay in the current segment until as many '(' have been scanned; the scan of
\* an unbalanced list ends without raising and returns its segments.
C19_DepthNotClamped ==
    /\ pc = "scan" =>
          /\ paren_count = Depth(select_clause, pos)
          /\ parts = PiecesBefore(select_clause, pos)
    /\ ScanFinished =>
          parts = IF Strip(LastPiece(select_clause)) = <<>>
                  THEN SubSeq(Pieces(select_clause), 1, TopLevelCommas(select_clause))
                  ELSE Pieces(select_clause)
    /\ pc = "raised" => \E i \in 1..Len(parts) : Contains(Upper(parts[i]), KwUpper)

\* C19 witness: an unbalanced list was split whose first comma came at negative
\* depth and stayed in its segment, and whose later comma, at depth back to zero,
\* separated two segments.
C19_Witness ==
    /\ pc = "done"
    /\ ~Balanced(select_clause)
    /\ \E i, j \in 1..Len(select_clause) :
          /\ i < j
          /\ select_clause[i] = "," /\ Depth(select_clause, i - 1) < 0
          /\ select_clause[j] = "," /\ Depth(select_clause, j - 1) = 0
    /\ Len(parts) = 2
    /\ \E k \in 1..Len(parts[1]) : parts[1][k] = ","

HasAliasKeyword(part) == Contains(Upper(part), KwUpper)

\* the alias the claim expects: the text after the first keyword in any letter case
ExpectedAlias(part) ==
    LET i == Find(Upper(part), KwUpper)
    IN  Strip(SubSeq(part, i + Len(KwUpper), Len(part)))

\* C2 as stated: alias extraction is case-insensitive; every segment holding the
\* keyword AS between spaces, in any letter case, is split at the first keyword and
\* its alias becomes a column name, and no letter case raises.
C2_AliasAnyCase ==
    pc \in {"done", "raised"}
        => /\ pc # "raised"
           /\ \A i \in 1..Len(parts) :
                HasAliasKeyword(parts[i]) => ExpectedAlias(parts[i]) \in DictKeys(columns)

---------------------------------------------------------------------------
(* _classify_transform                                                     *)

Str_count == <<"c","o","u","n","t","(">>
Str_sum == <<"s","u","m","(">>
Str_avg == <<"a","v","g","(">>
Str_lower == <<"l","o","w","e","r","(">>
Str_upper == <<"u","p","p","e","r","(">>
Str_regexp_replace == <<"r","e","g","e","x","p","_","r","e","p","l","a","c","e","(">>
Str_replace == <<"r","e","p","l","a","c","e","(">>
Str_to_timestamp == <<"t","o","_","t","i","m","e","s","t","a","m","p","(">>
Str_cast == <<"c","a","s","t","(">>
Str_group_by == <<"g","r","o","u","p"," ","b","y">>
Str_where == <<"w","h","e","r","e">>

\* lines 359-376 with the type_conversion test moved to the front
ClassifyConversionFirst(transform) ==
    LET transform_lower == Lower(transform)
    IN  IF Contains(transform_lower, Str_to_timestamp) \/ Contains(transform_lower, Str_cast)
        THEN "type_conversion"
        ELSE IF \/ Contains(transform_lower, Str_count)
                \/ Contains(transform_lower, Str_sum)
                \/ Contains(transform_lower, Str_avg)
        THEN "aggregation"
        ELSE IF Contains(transform_lower, Str_lower) \/ Contains(transform_lower, Str_upper)
        THEN "string_function"
        ELSE IF \/ Contains(transform_lower, Str_regexp_replace)
                \/ Contains(transform_lower, Str_replace)
        THEN "string_function"
        ELSE IF Contains(transform_lower, Str_group_by)
        THEN "group_by"
        ELSE IF Contains(transform_lower, Str_where)
        THEN "filter"
        ELSE "function"

ClassifyTransform(transform) ==
    LET transform_lower == Lower(transform)
    IN  IF \/ Contains(transform_lower, Str_count)
           \/ Contains(transform_lower, Str_sum)
           \/ Contains(transform_lower, Str_avg)
        THEN "aggregation"
        ELSE IF Contains(transform_lower, Str_lower) \/ Contains(transform_lower, Str_upper)
        THEN "string_function"
        ELSE IF \/ Contains(transform_lower, Str_regexp_replace)
                \/ Contains(transform_lower, Str_replace)
        THEN "string_function"
        ELSE IF Contains(transform_lower, Str_to_timestamp) \/ Contains(transform_lower, Str_cast)
        THEN "type_conversion"
        ELSE IF Contains(transform_lower, Str_group_by)
        THEN "group_by"
        ELSE IF Contains(transform_lower, Str_where)
        THEN "filter"
        ELSE "function"

MaxClassifyTokens == 3   \* longest classified expression, in tokens

ClassifyTokens ==
    {Upper(Str_count), Str_sum, <<"A","v","g","(">>, Upper(Str_lower), Str_upper,
     Str_regexp_replace, Upper(Str_replace), Str_to_timestamp, Upper(Str_cast),
     Upper(Str_group_by), Str_where, <<"x", ")">>}

ClassifyInputs ==
    {Concat(ts) : ts \in UNION {[1..n -> ClassifyTokens] : n \in 0..MaxClassifyTokens}}

ClassifyInit ==
    /\ SplitIdle
    /\ ExtractIdle
    /\ AssembleIdle
    /\ LoadIdle
    /\ transform_text \in ClassifyInputs
    /\ transform_type = ""

\* the call _classify_transform(transform_text)
Classify ==
    /\ transform_type = ""
    /\ transform_type' = ClassifyTransform(transform_text)
    /\ UNCHANGED <<transform_text, splitVars, extractVars, assembleVars, loadVars>>

ClassifyNext == Classify

SpecClassify == ClassifyInit /\ [][ClassifyNext]_vars

HasAggregation(t) ==
    \E s \in {Str_count, Str_sum, Str_avg} : Contains(Lower(t), s)
HasStringFunction(t) ==
    \E s \in {Str_lower, Str_upper, Str_regexp_replace, Str_replace} : Contains(Lower(t), s)
HasConversion(t) ==
    \E s \in {Str_to_timestamp, Str_cast} : Contains(Lower(t), s)
HasGroupBy(t) == Contains(Lower(t), Str_group_by)
HasWhere(t) == Contains(Lower(t), Str_where)

\* C4: the classifier returns a tag for every expression, the tag of the first
\* matching check in the order aggregation, string_function, type_conversion,
\* group_by, filter, else function; an expression with both an aggregation call and
\* a cast-style call is an aggregation.
C4_ClassifierPrecedence ==
    transform_type # "" =>
        LET t == transform_text
        IN  /\ transform_type \in {"aggregation", "string_function", "type_conversion",
                                   "group_by", "filter", "function"}
            /\ (transform_type = "aggregation") <=> HasAggregation(t)
            /\ (transform_type = "string_function")
                  <=> (~HasAggregation(t) /\ HasStringFunction(t))
            /\ (transform_type = "type_conversion")
                  <=> (~HasAggregation(t) /\ ~HasStringFunction(t) /\ HasConversion(t))
            /\ (transform_type = "group_by")
                  <=> (~HasAggregation(t) /\ ~HasStringFunction(t) /\ ~HasConversion(t)
                       /\ HasGroupBy(t))
            /\ (transform_type = "filter")
                  <=> (~HasAggregation(t) /\ ~HasStringFunction(t) /\ ~HasConversion(t)
                       /\ ~HasGroupBy(t) /\ HasWhere(t))
            /\ (HasAggregation(t) /\ HasConversion(t)) => transform_type = "aggregation"

\* C4 witness: CAST(sum(x) has been classified, as an aggregation.
C4_Witness ==
    /\ transform_text = Concat(<<Upper(Str_cast), Str_sum, <<"x", ")">> >>)
    /\ transform_type = "aggregation"

---------------------------------------------------------------------------
(* FixedComprehensiveExtractor: the per-file parsers                       *)
(*                                                                         *)
(* A file is given by what the parser reads from it: whether open()/read() *)
(* succeeds, the matches re.findall returns on its content, the document   *)
(* yaml.safe_load returns.                                                 *)

\* str() of a character sequence
RECURSIVE ToStr(_)
ToStr(s) == IF s = <<>> THEN "" ELSE Head(s) \o ToStr(Tail(s))

\* dict.get(key, default) on an insertion-ordered dict
DictGet(d, key, default) ==
    IF \E i \in 1..Len(d) : d[i][1] = key
    THEN d[CHOOSE i \in 1..Len(d) : d[i][1] = key][2]
    ELSE default

\* the Transforms of one SELECT block (lines 123-136): one per entry of the
\* parsed columns whose expression differs from its name
DbtBlockTransforms(cols, f, from_table) ==
    LET changed == SelectSeq(cols, LAMBDA e : e[2] # e[1])
    IN  [i \in 1..Len(changed) |->
            [id |-> "dbt_" \o f.stem \o "_" \o ToStr(changed[i][1]),
             file |-> f.path,
             language |-> "dbt",
             layer |-> f.layer,
             table |-> f.stem,
             column |-> ToStr(changed[i][1]),
             transform_type |-> ClassifyTransform(changed[i][2]),
             transform |-> ToStr(changed[i][2]),
             input_table |-> from_table,
             description |-> "dbt transform in " \o f.stem]]

\* the loop over the matches (lines 121-136); raised = _parse_select_clause raised
RECURSIVE DbtMatches(_, _, _)
DbtMatches(ts, matches, f) ==
    IF matches = <<>> THEN [transforms |-> ts, raised |-> FALSE]
    ELSE LET r == ParseSelectClause(Head(matches).select_clause)
         IN  IF r.raised THEN [transforms |-> ts, raised |-> TRUE]
             ELSE DbtMatches(ts \o DbtBlockTransforms(r.columns, f, Head(matches).from_table),
                             Tail(matches), f)

\* _parse_dbt_sql_file (lines 101-147) on extractor state st = [transforms,
\* datasets, jobs, error_log]
ParseDbtSqlFile(st, f) ==
    IF ~f.readable
    THEN [st EXCEPT !.error_log = Append(@, f.path)]
    ELSE LET r == DbtMatches(st.transforms, f.matches, f)
         IN  IF r.raised
             THEN [st EXCEPT !.transforms = r.transforms,
                             !.error_log = Append(@, f.path)]
             ELSE [st EXCEPT !.transforms = r.transforms,
                             !.datasets = DictSet(@, "dbt_" \o f.stem,
                                                  [name |-> f.stem, type |-> "dbt_model",
                                                   layer |-> f.layer, file |-> f.path])]

\* YAML documents, tagged by Python type
YDict(items) == [t |-> "dict", items |-> items]
YList(elems) == [t |-> "list", elems |-> elems]
YStr(str) == [t |-> "str", s |-> str]
YInt == [t |-> "int"]

SchemaTestTransform(f, model_name, column_name, test_name) ==
    [id |-> "dbt_test_" \o model_name \o "_" \o column_name \o "_" \o test_name,
     file |-> f.path,
     language |-> "dbt",
     layer |-> "test",
     table |-> model_name,
     column |-> column_name,
     transform_type |-> "dbt_test",
     transform |-> test_name,
     description |-> "dbt test: " \o test_name \o " on " \o column_name]

\* the loop over one column's tests (lines 169-187); raised = list(test.keys())[0]
\* on an empty mapping (IndexError)
RECURSIVE SchemaTests(_, _, _, _, _)
SchemaTests(ts, tests, f, model_name, column_name) ==
    IF tests = <<>> THEN [transforms |-> ts, raised |-> FALSE]
    ELSE LET test == Head(tests)
         IN  IF test.t = "str"
             THEN SchemaTests(Append(ts, SchemaTestTransform(f, model_name, column_name, test.s)),
                              Tail(tests), f, model_name, column_name)
             ELSE IF test.t = "dict"
             THEN IF test.items = <<>>
                  THEN [transforms |-> ts, raised |-> TRUE]
                  ELSE SchemaTests(Append(ts, SchemaTestTransform(f, model_name, column_name,
                                                                  test.items[1][1])),
                                   Tail(tests), f, model_name, column_name)
             ELSE SchemaTests(ts, Tail(tests), f, model_name, column_name)

\* the loop over one model's columns (lines 162-187)
RECURSIVE SchemaColumns(_, _, _, _)
SchemaColumns(ts, cols, f, model_name) ==
    IF cols = <<>> THEN [transforms |-> ts, raised |-> FALSE]
    ELSE LET column_name == Head(cols)[1]
             column_config == Head(cols)[2]
         IN  IF column_config.t # "dict"
             THEN SchemaColumns(ts, Tail(cols), f, model_name)
             ELSE LET tests == DictGet(column_config.items, "tests", YList(<<>>))
                  IN  IF tests.t # "list"
                      THEN SchemaColumns(ts, Tail(cols), f, model_name)
                      ELSE LET r == SchemaTests(ts, tests.elems, f, model_name, column_name)
                           IN  IF r.raised THEN r
                               ELSE SchemaColumns(r.transforms, Tail(cols), f, model_name)

\* the loop over the models (lines 158-187); raised also when .items() is called
\* on a 'columns' value that is no mapping (AttributeError)
RECURSIVE SchemaModels(_, _, _)
SchemaModels(ts, models, f) ==
    IF models = <<>> THEN [transforms |-> ts, raised |-> FALSE]
    ELSE LET model_name == Head(models)[1]
             model_config == Head(models)[2]
         IN  IF model_config.t # "dict"
             THEN SchemaModels(ts, Tail(models), f)
             ELSE LET cols == DictGet(model_config.items, "columns", YDict(<<>>))
                  IN  IF cols.t # "dict"
                      THEN [transforms |-> ts, raised |-> TRUE]
                      ELSE LET r == SchemaColumns(ts, cols.items, f, model_name)
                           IN  IF r.raised THEN r
                               ELSE SchemaModels(r.transforms, Tail(models), f)

\* _parse_dbt_schema_file (lines 149-190)
ParseDbtSchemaFile(st, f) ==
    IF ~f.readable
    THEN [st EXCEPT !.error_log = Append(@, f.path)]
    ELSE IF f.schema_data.t # "dict"
    THEN st
    ELSE LET models == DictGet(f.schema_data.items, "models", YDict(<<>>))
         IN  IF models.t # "dict"
             THEN [st EXCEPT !.error_log = Append(@, f.path)]
             ELSE LET r == SchemaModels(st.transforms, models.items, f)
                  IN  [st EXCEPT !.transforms = r.transforms,
                                 !.error_log = IF r.raised THEN Append(@, f.path) ELSE @]

\* the matches of one operation's pattern in a file (re.findall)
Matches(f, operation) ==
    IF operation \in DOMAIN f.matches THEN f.matches[operation] ELSE <<>>

\* the operation names of spark_operations (lines 199-213)
SparkOperations ==
    <<"filter", "select", "groupBy", "agg", "withColumn", "drop", "fillna", "replace",
      "join", "orderBy", "distinct", "coalesce", "repartition">>

\* the operation names of pandas_operations (lines 247-262)
PandasOperations ==
    <<"string_operation", "fillna", "dropna", "clip", "groupby", "agg", "merge", "join",
      "apply", "transform", "pivot", "melt", "sort_values", "drop_duplicates">>

\* the operation names of sql_operations (lines 296-302)
SqlOperations == <<"select", "where", "group_by", "order_by", "having">>

\* the records one operation's matches append, with i counted from 0 (enumerate)
OperationTransforms(f, operation, prefix, language, layer, table, ttype, sep, close, descr) ==
    LET ms == Matches(f, operation)
    IN  [k \in 1..Len(ms) |->
            [id |-> prefix \o f.stem \o "_" \o operation \o "_" \o ToString(k - 1),
             file |-> f.path,
             language |-> language,
             layer |-> layer,
             table |-> table,
             column |-> "multiple",
             transform_type |-> ttype,
             transform |-> operation \o sep \o ms[k] \o close,
             description |-> descr \o operation \o " operation"]]

\* the loop over spark_operations (lines 215-228)
RECURSIVE SparkLoop(_, _, _)
SparkLoop(ts, ops, f) ==
    IF ops = <<>> THEN ts
    ELSE SparkLoop(ts \o OperationTransforms(f, Head(ops), "spark_", "spark", "processing",
                                            "spark_dataframe", "spark_operation",
                                            "(", ")", "Spark "),
                   Tail(ops), f)

\* _parse_spark_file (lines 192-238)
ParseSparkFile(st, f) ==
    IF ~f.readable
    THEN [st EXCEPT !.error_log = Append(@, f.path)]
    ELSE [st EXCEPT !.transforms = SparkLoop(@, SparkOperations, f),
                    !.jobs = DictSet(@, "spark_" \o f.stem,
                                     [name |-> f.stem, type |-> "spark_job", file |-> f.path])]

\* the loop over pandas_operations (lines 264-277)
RECURSIVE PandasLoop(_, _, _)
PandasLoop(ts, ops, f) ==
    IF ops = <<>> THEN ts
    ELSE PandasLoop(ts \o OperationTransforms(f, Head(ops), "python_", "python", "processing",
                                             "dataframe", "pandas_operation",
                                             "(", ")", "Python pandas "),
                    Tail(ops), f)

\* _parse_python_file (lines 240-287)
ParsePythonFile(st, f) ==
    IF ~f.readable
    THEN [st EXCEPT !.error_log = Append(@, f.path)]
    ELSE [st EXCEPT !.transforms = PandasLoop(@, PandasOperations, f),
                    !.jobs = DictSet(@, "python_" \o f.stem,
                                     [name |-> f.stem, type |-> "python_job", file |-> f.path])]

\* the loop over sql_operations (lines 304-317)
RECURSIVE SqlLoop(_, _, _)
SqlLoop(ts, ops, f) ==
    IF ops = <<>> THEN ts
    ELSE SqlLoop(ts \o OperationTransforms(f, Head(ops), "sql_", "sql", "query",
                                          "sql_table", "sql_operation", ": ", "", "SQL "),
                 Tail(ops), f)

\* _parse_sql_file (lines 289-320)
ParseSqlFile(st, f) ==
    IF ~f.readable
    THEN [st EXCEPT !.error_log = Append(@, f.path)]
    ELSE [st EXCEPT !.transforms = SqlLoop(@, SqlOperations, f)]

---------------------------------------------------------------------------
(* FixedComprehensiveExtractor: the driver                                 *)

\* the file names of _extract_spark_transforms (lines 64-68)
SparkFiles == <<"spark_pipeline.py", "spark_pipeline_simple.py", "test_spark_pipeline.py">>

\* the file names of _extract_python_transforms (lines 79-85)
PythonFiles == <<"data_transformer.py", "data_pipeline.py", "data_extractor.py",
                 "data_generator.py", "database_manager.py">>

\* the files of `names`, in that order, that exist in the scan root (lines 70-73, 87-90)
RECURSIVE ExistingFiles(_, _, _)
ExistingFiles(root, names, kind) ==
    IF names = <<>> THEN <<>>
    ELSE (IF \E f \in root : f.name = Head(names)
          THEN <<[kind |-> kind, f |-> CHOOSE f \in root : f.name = Head(names)]>>
          ELSE <<>>)
         \o ExistingFiles(root, Tail(names), kind)

\* the parser calls of one run, in order (lines 27-30 with lines 45-99)
Worklist(tr) ==
    [i \in 1..Len(tr.models) |-> [kind |-> "dbt_sql", f |-> tr.models[i]]]
    \o [i \in 1..Len(tr.schema) |-> [kind |-> "dbt_schema", f |-> tr.schema[i]]]
    \o ExistingFiles(tr.root, SparkFiles, "spark")
    \o ExistingFiles(tr.root, PythonFiles, "python")
    \o [i \in 1..Len(tr.sql) |-> [kind |-> "sql", f |-> tr.sql[i]]]

\* _group_transforms_by_type with the count set instead of incremented
RECURSIVE GroupCountOnce(_, _, _)
GroupCountOnce(counts, ts, key) ==
    IF ts = <<>> THEN counts
    ELSE GroupCountOnce(DictSet(counts, Head(ts)[key], 1), Tail(ts), key)

\* the counting loop of _group_transforms_by_type / _group_transforms_by_language
RECURSIVE GroupCount(_, _, _)
GroupCount(counts, ts, key) ==
    IF ts = <<>> THEN counts
    ELSE GroupCount(DictSet(counts, Head(ts)[key], DictGet(counts, Head(ts)[key], 0) + 1),
                    Tail(ts), key)

\* _group_transforms_by_type (lines 378-384)
GroupTransformsByType(ts) == GroupCount(<<>>, ts, "transform_type")

\* _group_transforms_by_language (lines 386-392)
GroupTransformsByLanguage(ts) == GroupCount(<<>>, ts, "language")

\* the result dict (lines 33-41), without its timestamp
OrganizeResult(ts, ds, js) ==
    [total_transforms |-> Len(ts),
     transforms_by_type |-> GroupTransformsByType(ts),
     transforms_by_language |-> GroupTransformsByLanguage(ts),
     datasets |-> ds,
     jobs |-> js,
     all_transforms |-> ts]

ExtractorState ==
    [transforms |-> transforms, datasets |-> datasets, jobs |-> jobs, error_log |-> error_log]

\* one parser call of the run: extractor state st replaces the current one
ParserCall(kind, st) ==
    /\ run_pc = "extracting"
    /\ worklist # <<>>
    /\ Head(worklist).kind = kind
    /\ transforms' = st.transforms
    /\ datasets' = st.datasets
    /\ jobs' = st.jobs
    /\ error_log' = st.error_log
    /\ worklist' = Tail(worklist)
    /\ UNCHANGED <<tree, results, run_kind, run_pc, splitVars, classVars, assembleVars, loadVars>>

DbtSqlStep == ParserCall("dbt_sql", ParseDbtSqlFile(ExtractorState, Head(worklist).f))

DbtSchemaStep == ParserCall("dbt_schema", ParseDbtSchemaFile(ExtractorState, Head(worklist).f))

SparkStep == ParserCall("spark", ParseSparkFile(ExtractorState, Head(worklist).f))

PythonStep == ParserCall("python", ParsePythonFile(ExtractorState, Head(worklist).f))

SqlStep == ParserCall("sql", ParseSqlFile(ExtractorState, Head(worklist).f))

\* extract_all_transforms returns (lines 33-43)
ReturnResult ==
    /\ run_pc = "extracting"
    /\ worklist = <<>>
    /\ results' = Append(results, OrganizeResult(transforms, datasets, jobs))
    /\ run_pc' = "returned"
    /\ UNCHANGED <<tree, worklist, transforms, datasets, jobs, error_log, run_kind,
                   splitVars, classVars, assembleVars, loadVars>>

MaxRuns == 2   \* extraction runs on one file tree

\* extract_all_transforms is called again on the same extractor object
RunAgain ==
    /\ run_pc = "returned"
    /\ Len(results) < MaxRuns
    /\ worklist' = Worklist(tree)
    /\ error_log' = <<>>
    /\ run_kind' = Append(run_kind, "same")
    /\ run_pc' = "extracting"
    /\ UNCHANGED <<tree, transforms, datasets, jobs, results, splitVars, classVars, assembleVars, loadVars>>

\* a new extractor object is constructed (lines 16-20) and run
NewExtractor ==
    /\ run_pc = "returned"
    /\ Len(results) < MaxRuns
    /\ transforms' = <<>>
    /\ datasets' = <<>>
    /\ jobs' = <<>>
    /\ worklist' = Worklist(tree)
    /\ error_log' = <<>>
    /\ run_kind' = Append(run_kind, "new")
    /\ run_pc' = "extracting"
    /\ UNCHANGED <<tree, results, splitVars, classVars, assembleVars, loadVars>>

---------------------------------------------------------------------------
(* File trees of the extraction specification                              *)

MaxSegments == 3     \* projection-list segments of a generated SELECT block
MaxTests == 2        \* tests of a generated manifest column
MaxModelFiles == 2   \* model files of a mixed tree

Seg_a == <<"a">>
Seg_t == <<"t">>
Seg_sum_AS_t == <<"S","U","M","(","a",")"," ","A","S"," ","t">>
Seg_a_AS_t == <<"a"," ","A","S"," ","t">>
Seg_a_as_t == <<"a"," ","a","s"," ","t">>
Seg_cast_AS_u == <<"C","A","S","T","(","a",")"," ","A","S"," ","u">>

Segments == {Seg_a, Seg_t, Seg_sum_AS_t, Seg_a_AS_t, Seg_a_as_t, Seg_cast_AS_u}

\* ", ".join(segments)
RECURSIVE JoinSegments(_)
JoinSegments(ss) ==
    IF Len(ss) = 1 THEN ss[1] ELSE ss[1] \o <<",", " ">> \o JoinSegments(Tail(ss))

GeneratedClauses ==
    {JoinSegments(ss) : ss \in UNION {[1..n -> Segments] : n \in 1..MaxSegments}}

Block(clause) == [select_clause |-> clause, from_table |-> "raw"]

ModelFile(dir, stem, readable, matches) ==
    [path |-> "models/" \o dir \o "/" \o stem \o ".sql", stem |-> stem, layer |-> dir,
     readable |-> readable, matches |-> matches]

EmptyTree == [models |-> <<>>, schema |-> <<>>, root |-> {}, sql |-> <<>>]

\* one model file, its SELECT blocks generated
ModelTrees ==
    {[EmptyTree EXCEPT !.models = <<ModelFile("staging", "orders", TRUE, <<Block(c)>>)>>]
        : c \in GeneratedClauses}
    \cup
    {[EmptyTree EXCEPT !.models =
            <<ModelFile("staging", "orders", TRUE, <<Block(c1), Block(c2)>>)>>]
        : c1 \in Segments, c2 \in Segments}

RootFile(name, stem, readable, matches) ==
    [name |-> name, stem |-> stem, path |-> name, readable |-> readable, matches |-> matches]

SparkPipeline ==
    RootFile("spark_pipeline.py", "spark_pipeline", TRUE,
             [filter |-> <<"df.x > 0", "df.y > 0">>, distinct |-> <<".distinct()">>])

DataTransformer ==
    RootFile("data_transformer.py", "data_transformer", TRUE,
             [fillna |-> <<".fillna(0)">>, string_operation |-> <<"strip">>])

DataPipelineUnreadable ==
    RootFile("data_pipeline.py", "data_pipeline", FALSE, [fillna |-> <<>>])

SchemaFile(readable, doc) ==
    [path |-> "models/schema.yml", readable |-> readable, schema_data |-> doc]

TestNodes ==
    {YStr("not_null"), YDict(<< <<"accepted_values", YInt>> >>), YDict(<<>>), YInt}

TestsValues ==
    {YList(l) : l \in UNION {[1..n -> TestNodes] : n \in 0..MaxTests}} \cup {YStr("unique")}

ColumnConfigs ==
    {YDict(<< <<"tests", tv>> >>) : tv \in TestsValues} \cup {YInt, YDict(<<>>)}

ColumnsValues ==
    {YDict(<< <<"id", cc>> >>) : cc \in ColumnConfigs} \cup {YList(<<>>)}

ModelConfigs ==
    {YDict(<< <<"columns", cv>> >>) : cv \in ColumnsValues} \cup {YStr("x"), YDict(<<>>)}

GoodModelConfig ==
    YDict(<< <<"columns", YDict(<< <<"id", YDict(<< <<"tests", YList(<<YStr("unique")>>)>> >>)>> >>)>> >>)

ModelsValues ==
    {YDict(<< <<"orders", mc>> >>) : mc \in ModelConfigs}
    \cup {YDict(<< <<"users", GoodModelConfig>>, <<"orders", mc>> >>) : mc \in ModelConfigs}
    \cup {YList(<<>>)}

SchemaDocs ==
    {YDict(<< <<"models", mv>> >>) : mv \in ModelsValues} \cup {YList(<<>>), YDict(<<>>)}

\* a manifest, generated, alone or followed by a Spark file
SchemaTrees ==
    {[EmptyTree EXCEPT !.schema = <<sf>>, !.root = r]
        : sf \in {SchemaFile(TRUE, d) : d \in SchemaDocs} \cup {SchemaFile(FALSE, YInt)},
          r \in {{}, {SparkPipeline}}}

Clause_good == Seg_sum_AS_t
Clause_raising == Seg_a_as_t

ModelContents ==
    {[readable |-> TRUE, matches |-> <<Block(Clause_good)>>],
     [readable |-> TRUE, matches |-> <<Block(Clause_good), Block(Clause_good)>>],
     [readable |-> TRUE, matches |-> <<Block(Clause_good), Block(Clause_raising)>>],
     [readable |-> FALSE, matches |-> <<>>]}

ModelPool ==
    {ModelFile(d[1], d[2], c.readable, c.matches)
        : d \in {<<"staging", "orders">>, <<"marts", "orders">>, <<"staging", "users">>},
          c \in ModelContents}

\* rglob results: lists of files with pairwise different paths
ModelLists ==
    {l \in UNION {[1..n -> ModelPool] : n \in 0..MaxModelFiles}
        : \A i, j \in 1..Len(l) : i # j => l[i].path # l[j].path}

SqlFile(path, stem, readable, matches) ==
    [path |-> path, stem |-> stem, readable |-> readable, matches |-> matches]

SqlLists ==
    {<<>>,
     <<SqlFile("report.sql", "report", TRUE, [select |-> <<"a, b">>, where |-> <<"a > 0">>])>>,
     <<SqlFile("report.sql", "report", TRUE, [select |-> <<"a, b">>, where |-> <<"a > 0">>]),
       SqlFile("adhoc/report.sql", "report", TRUE, [select |-> <<"c">>])>>}

SchemaLists ==
    {<<>>,
     <<SchemaFile(TRUE, YDict(<< <<"models", YDict(<< <<"orders", GoodModelConfig>> >>)>> >>))>>}

RootSets == {{}, {SparkPipeline, DataTransformer, DataPipelineUnreadable}}

\* model files, manifest, scripts and standalone SQL together
MixedTrees ==
    {[models |-> ms, schema |-> sc, root |-> r, sql |-> sq]
        : ms \in ModelLists, sc \in SchemaLists, r \in RootSets, sq \in SqlLists}

Trees == ModelTrees \cup SchemaTrees \cup MixedTrees

ExtractInit ==
    /\ SplitIdle
    /\ ClassIdle
    /\ AssembleIdle
    /\ LoadIdle
    /\ tree \in Trees
    /\ worklist = Worklist(tree)
    /\ transforms = <<>>
    /\ datasets = <<>>
    /\ jobs = <<>>
    /\ error_log = <<>>
    /\ results = <<>>
    /\ run_kind = <<"new">>
    /\ run_pc = "extracting"

ExtractNext ==
    \/ DbtSqlStep
    \/ DbtSchemaStep
    \/ SparkStep
    \/ PythonStep
    \/ SqlStep
    \/ ReturnResult
    \/ RunAgain
    \/ NewExtractor

SpecExtract == ExtractInit /\ [][ExtractNext]_vars

---------------------------------------------------------------------------
(* Claims about an extraction run                                          *)

\* the (expression, alias) pair the specification assigns to a segment: split at
\* the first keyword in any letter case, else the segment twice
ExpectedPair(segment) ==
    IF HasAliasKeyword(segment)
    THEN <<Strip(SubSeq(segment, 1, Find(Upper(segment), KwUpper) - 1)), ExpectedAlias(segment)>>
    ELSE <<segment, segment>>

\* number of segments of a projection list whose alias differs from the expression
SegmentsWithAlias(clause) ==
    LET segs == SplitParts(clause)
    IN  Cardinality({i \in 1..Len(segs) : ExpectedPair(segs[i])[1] # ExpectedPair(segs[i])[2]})

RECURSIVE ExpectedTransformCount(_)
ExpectedTransformCount(matches) ==
    IF matches = <<>> THEN 0
    ELSE SegmentsWithAlias(Head(matches).select_clause) + ExpectedTransformCount(Tail(matches))

TransformsOfFile(ts, path) == {k \in 1..Len(ts) : ts[k].file = path}

FirstRunReturned == run_pc = "returned" /\ Len(results) = 1

\* C3 as stated: in the sql-model parser every segment of a matched SELECT block
\* whose alias differs from its expression produces exactly one Transform and a
\* segment without an alias produces none, so a model file yields as many
\* Transforms as its blocks have aliased segments.
C3_TransformPerAliasedSegment ==
    FirstRunReturned =>
        \A i \in 1..Len(tree.models) :
            tree.models[i].readable =>
                Cardinality(TransformsOfFile(transforms, tree.models[i].path))
                    = ExpectedTransformCount(tree.models[i].matches)

LastResult == results[Len(results)]

\* C5 as stated: after any extraction run no two Transform records of the emitted
\* list share an id.
C5_IdsUnique ==
    run_pc = "returned" =>
        \A i, j \in 1..Len(LastResult.all_transforms) :
            i # j => LastResult.all_transforms[i].id # LastResult.all_transforms[j].id

JobKeyOf(f) ==
    IF \E i \in 1..Len(SparkFiles) : SparkFiles[i] = f.name
    THEN "spark_" \o f.stem ELSE "python_" \o f.stem

\* C6 as stated: a file whose parsing raised contributes no Transform to the
\* emitted list, and the files after it are still parsed (every readable script
\* has its job registered when the run returns).
C6_RaisingFileContributesNothing ==
    FirstRunReturned =>
        /\ \A k \in 1..Len(error_log) :
               TransformsOfFile(LastResult.all_transforms, error_log[k]) = {}
        /\ \A f \in tree.root : f.readable => JobKeyOf(f) \in DictKeys(jobs)

\* C7 as stated: every run on the unchanged tree returns the same Transforms in the
\* same order as the first run, whether or not the extractor object is reused.
C7_RunsAgree ==
    run_pc = "returned" =>
        \A i \in 1..Len(results) : results[i].all_transforms = results[1].all_transforms

RECURSIVE SumCounts(_)
SumCounts(counts) == IF counts = <<>> THEN 0 ELSE Head(counts)[2] + SumCounts(Tail(counts))

ExactTally(counts, ts, key, total) ==
    /\ \A i, j \in 1..Len(counts) : i # j => counts[i][1] # counts[j][1]
    /\ \A i \in 1..Len(counts) :
          /\ counts[i][2] = Cardinality({k \in 1..Len(ts) : ts[k][key] = counts[i][1]})
          /\ counts[i][2] > 0
    /\ \A k \in 1..Len(ts) : ts[k][key] \in DictKeys(counts)
    /\ SumCounts(counts) = total

\* C8: in the result an extraction run returns, total_transforms is the length of
\* all_transforms, and transforms_by_type and transforms_by_language hold, per tag
\* that occurs and for no other, the number of Transforms of all_transforms with
\* that tag; each grouping sums to total_transforms.
C8_TalliesExact ==
    run_pc = "returned" =>
        LET r == LastResult
        IN  /\ r.total_transforms = Len(r.all_transforms)
            /\ ExactTally(r.transforms_by_type, r.all_transforms, "transform_type",
                          r.total_transforms)
            /\ ExactTally(r.transforms_by_language, r.all_transforms, "language",
                          r.total_transforms)

\* C8 witness: a result with three or more transform types (one of them counted
\* more than once) and three or more languages has been returned.
C8_Witness ==
    /\ run_pc = "returned"
    /\ Len(LastResult.transforms_by_type) >= 3
    /\ Len(LastResult.transforms_by_language) >= 3
    /\ \E i \in 1..Len(LastResult.transforms_by_type) : LastResult.transforms_by_type[i][2] >= 2
    /\ LastResult.total_transforms >= 5

\* a declared test of the expected shape: a name or a single-key mapping
WellFormedTest(test) == test.t = "str" \/ (test.t = "dict" /\ Len(test.items) = 1)

\* the well-formed declared tests of a manifest, as <<model, column, test>>
\* positions, every node of another shape being skipped
DeclaredTests(doc) ==
    LET Models == IF doc.t = "dict" THEN DictGet(doc.items, "models", YDict(<<>>))
                  ELSE YDict(<<>>)
        ModelItems == IF Models.t = "dict" THEN Models.items ELSE <<>>
        ColumnItems(m) ==
            LET model_config == ModelItems[m][2]
                cols == IF model_config.t = "dict"
                        THEN DictGet(model_config.items, "columns", YDict(<<>>))
                        ELSE YDict(<<>>)
            IN  IF cols.t = "dict" THEN cols.items ELSE <<>>
        TestElems(m, c) ==
            LET column_config == ColumnItems(m)[c][2]
                tests == IF column_config.t = "dict"
                         THEN DictGet(column_config.items, "tests", YList(<<>>))
                         ELSE YList(<<>>)
            IN  IF tests.t = "list" THEN tests.elems ELSE <<>>
    IN  UNION {UNION {{<<m, c, k>> : k \in {j \in 1..Len(TestElems(m, c))
                                               : WellFormedTest(TestElems(m, c)[j])}}
                        : c \in 1..Len(ColumnItems(m))}
                 : m \in 1..Len(ModelItems)}

\* C16: in the schema-manifest parser a node that does not match the expected
\* shape is skipped without raising, and every well-formed declared test of the
\* manifest yields exactly one Transform, of type 'dbt_test' and without input
\* table.
C16_MalformedNodesSkipped ==
    FirstRunReturned =>
        \A i \in 1..Len(tree.schema) :
            LET f == tree.schema[i]
                emitted == TransformsOfFile(LastResult.all_transforms, f.path)
            IN  f.readable =>
                    /\ \A k \in 1..Len(error_log) : error_log[k] # f.path
                    /\ Cardinality(emitted) = Cardinality(DeclaredTests(f.schema_data))
                    /\ \A k \in emitted :
                          /\ LastResult.all_transforms[k].transform_type = "dbt_test"
                          /\ "input_table" \notin DOMAIN LastResult.all_transforms[k]

\* the records of the jobs map whose source file is the given one
JobsOfFile(js, path) == {k \in 1..Len(js) : js[k][2].file = path}

\* C12: after any extraction run, every Transform of the emitted list is
\* attributed to exactly one Job: exactly one record of the jobs map has the
\* Transform's source file as its source file (so every source file that yielded
\* a Transform has a Job record).
C12_EveryTransformHasOneJob ==
    run_pc = "returned" =>
        \A k \in 1..Len(LastResult.all_transforms) :
            Cardinality(JobsOfFile(LastResult.jobs, LastResult.all_transforms[k].file)) = 1

---------------------------------------------------------------------------
(* working_comprehensive_loader.py: the event assembler                    *)

NAMESPACE == "data_pipeline"

\* `key in transform`
HasKey(transform, key) == key \in DOMAIN transform

\* transform.get(key, default)
Get(transform, key, default) == IF HasKey(transform, key) THEN transform[key] ELSE default

\* the limit of the slice dataset_transforms[:10] (line 341)
FieldDefinitionLimit == 10

\* lines 257-262 and 267-268 without the 'raw_data' default
JobInputDatasetsNoDefault(ts) ==
    {ts[i].input_table : i \in {k \in 1..Len(ts) : HasKey(ts[k], "input_table")}}

\* input_datasets (lines 257-262, 267-268)
JobInputDatasets(ts) ==
    LET found == {ts[i].input_table : i \in {k \in 1..Len(ts) : HasKey(ts[k], "input_table")}}
    IN  IF found = {} THEN {"raw_data"} ELSE found

\* output_datasets (lines 258-264, 269-270)
JobOutputDatasets(job_name, ts) ==
    LET found == {ts[i].table : i \in {k \in 1..Len(ts) : HasKey(ts[k], "table")}}
    IN  IF found = {} THEN {job_name \o "_output"} ELSE found

\* the orders in which a Python set can be iterated
Orders(S) == {o \in [1..Cardinality(S) -> S] : \A i, j \in 1..Cardinality(S) : i # j => o[i] # o[j]}

\* create_input_datasets (lines 310-329), the set iterated in `order`
CreateInputDatasets(order) ==
    [i \in 1..Len(order) |->
        [namespace |-> NAMESPACE,
         name |-> order[i],
         facets |-> [schema |-> [fields |-> <<[name |-> "id", type |-> "string"],
                                              [name |-> "data", type |-> "string"],
                                              [name |-> "timestamp", type |-> "timestamp"]>>]]]]

\* dataset_transforms (line 337)
DatasetTransforms(dataset_name, ts) ==
    SelectSeq(ts, LAMBDA t : /\ HasKey(t, "table")
                             /\ \/ t.table = dataset_name
                                \/ t.table = "spark_dataframe"
                                \/ t.table = "dataframe")

\* dataset_transforms[:n]
FirstNoLimit(seq, n) == seq

FirstN(seq, n) == SubSeq(seq, 1, IF Len(seq) < n THEN Len(seq) ELSE n)

\* column_name (line 342), i counted from 0
ColumnName(transform, i) == Get(transform, "column", "column_" \o ToString(i))

\* input_fields (lines 348-360)
InputFields(transform, column_name) ==
    IF HasKey(transform, "input_table")
    THEN <<[namespace |-> NAMESPACE, name |-> transform.input_table, field |-> column_name]>>
    ELSE <<[namespace |-> NAMESPACE, name |-> "raw_data", field |-> "data"]>>

\* the entry of field_definitions (lines 362-367)
FieldDefinition(transform, i) ==
    [inputFields |-> InputFields(transform, ColumnName(transform, i)),
     transformationType |-> ToStr(Upper(Get(transform, "transform_type",
                                            <<"f","u","n","c","t","i","o","n">>))),
     transformationDescription |-> Get(transform, "description", ""),
     transformation |-> Get(transform, "transform", "")]

\* the loop filling field_definitions (lines 340-367) over the transforms dts,
\* the next one having index i
RECURSIVE FieldDefinitions(_, _, _)
FieldDefinitions(defs, dts, i) ==
    IF dts = <<>> THEN defs
    ELSE FieldDefinitions(DictSet(defs, ColumnName(Head(dts), i), FieldDefinition(Head(dts), i)),
                          Tail(dts), i + 1)

\* one output dataset (lines 336-393)
OutputDataset(dataset_name, ts) ==
    LET field_definitions ==
            FieldDefinitions(<<>>, FirstN(DatasetTransforms(dataset_name, ts),
                                          FieldDefinitionLimit), 0)
        schema == [fields |-> [i \in 1..Len(field_definitions) |->
                                  [name |-> field_definitions[i][1], type |-> "string"]]]
    IN  [namespace |-> NAMESPACE,
         name |-> dataset_name,
         facets |-> IF field_definitions # <<>>
                    THEN [schema |-> schema,
                          fieldDefinitions |-> [fields |-> field_definitions]]
                    ELSE [schema |-> schema]]

\* create_output_datasets (lines 331-395), the set iterated in `order`
CreateOutputDatasets(order, ts) == [i \in 1..Len(order) |-> OutputDataset(order[i], ts)]

\* job_type.split('_')[0] (line 293) for the job types of lines 52-73
LanguageOf(job_type) ==
    CASE job_type = "python_batch" -> "python"
      [] job_type = "spark_batch" -> "spark"
      [] job_type = "sql_batch" -> "sql"
      [] job_type = "java_batch" -> "java"

\* the event of create_job_lineage_event (lines 273-302), without its times, run id
\* and sample source text
JobEvent(info, ts, input_order, output_order) ==
    [eventType |-> "COMPLETE",
     job |-> [namespace |-> NAMESPACE, name |-> info.name,
              facets |-> [sourceCode |-> [language |-> LanguageOf(info.type)]]],
     inputs |-> CreateInputDatasets(input_order),
     outputs |-> CreateOutputDatasets(output_order, ts)]

\* the sample jobs of load_comprehensive_lineage (lines 52-73), in definition order
SampleJobs ==
    <<[name |-> "data_transformer", type |-> "python_batch", file |-> "data_transformer.py"],
      [name |-> "spark_pipeline", type |-> "spark_batch", file |-> "spark_pipeline.py"],
      [name |-> "sql_processor", type |-> "sql_batch", file |-> "sql_processor.sql"],
      [name |-> "java_processor", type |-> "java_batch", file |-> "JavaProcessor.java"]>>

\* status codes the sink may answer with
SinkStatuses == {200, 201, 500}

---------------------------------------------------------------------------
(* Inputs of the assembler specification                                   *)

MaxShortList == 2     \* longest Transform list built from every shape
MaxTransforms == 12   \* longest Transform list built from a repeating pattern

\* a dict with the key only when a value is given
Opt(key, value) == IF value = "" THEN [k \in {} |-> ""] ELSE [k \in {key} |-> value]

\* the same for a value that is a character sequence
OptChars(key, value) == IF value = <<>> THEN [k \in {} |-> ""] ELSE [k \in {key} |-> value]

Chars_aggregation == <<"a","g","g","r","e","g","a","t","i","o","n">>
Chars_dbt_test == <<"d","b","t","_","t","e","s","t">>

\* the i-th Transform of a list, with the optional keys of the shape
AssemblerTransform(shape, i) ==
    [transform |-> "expr_" \o ToString(i), description |-> "transform " \o ToString(i)]
    @@ Opt("table", shape.table)
    @@ Opt("column", shape.column)
    @@ Opt("input_table", shape.input_table)
    @@ OptChars("transform_type", shape.transform_type)

Shapes ==
    {[table |-> t, column |-> c[1], transform_type |-> c[2], input_table |-> i]
        : t \in {"", "orders", "users", "spark_dataframe"},
          c \in {<<"", Chars_dbt_test>>, <<"id", <<>> >>, <<"amount", Chars_aggregation>>},
          i \in {"", "raw"}}

ShortLists ==
    {[i \in 1..Len(sh) |-> AssemblerTransform(sh[i], i)]
        : sh \in UNION {[1..n -> Shapes] : n \in 0..MaxShortList}}

Cycle(seq, i) == seq[((i - 1) % Len(seq)) + 1]

\* n Transforms whose tables and input tables repeat a cycle and whose columns are
\* absent (m = 0) or repeat m names
PatternList(n, tables, m, input_tables) ==
    [i \in 1..n |->
        AssemblerTransform([table |-> Cycle(tables, i),
                            column |-> IF m = 0 THEN "" ELSE "c" \o ToString((i - 1) % m),
                            transform_type |-> Chars_aggregation,
                            input_table |-> Cycle(input_tables, i)], i)]

PatternLists ==
    {PatternList(n, tc, m, ic)
        : n \in (MaxShortList + 1)..MaxTransforms,
          tc \in {<<"orders">>, <<"orders", "users">>, <<"orders", "spark_dataframe">>, <<"">>},
          m \in {0, 1, 3, FieldDefinitionLimit + 1},
          ic \in {<<"raw">>, <<"">>, <<"raw", "">>, <<"raw", "src">>}}

AssembleInit ==
    /\ SplitIdle
    /\ ClassIdle
    /\ ExtractIdle
    /\ LoadIdle
    /\ \/ /\ job_info \in {SampleJobs[i] : i \in 1..Len(SampleJobs)}
          /\ job_transforms = <<>>
       \/ /\ job_info = SampleJobs[2]
          /\ job_transforms \in ShortLists \cup PatternLists
    /\ event = <<>>
    /\ response_status = 0
    /\ assemble_pc = "call"

\* create_job_lineage_event(job_info, job_transforms) (lines 250-308): the event is
\* built and posted to the sink, which answers with a status code
CreateJobLineageEvent ==
    /\ assemble_pc = "call"
    /\ \E input_order \in Orders(JobInputDatasets(job_transforms)),
          output_order \in Orders(JobOutputDatasets(job_info.name, job_transforms)),
          status \in SinkStatuses :
            /\ event' = JobEvent(job_info, job_transforms, input_order, output_order)
            /\ response_status' = status
    /\ assemble_pc' = "sent"
    /\ UNCHANGED <<job_info, job_transforms, splitVars, classVars, extractVars, loadVars>>

AssembleNext == CreateJobLineageEvent

SpecAssemble == AssembleInit /\ [][AssembleNext]_vars

---------------------------------------------------------------------------
(* Claims about the assembler                                              *)

NamesOf(datasets_list) == [i \in 1..Len(datasets_list) |-> datasets_list[i].name]

NoneHasKey(ts, key) == \A i \in 1..Len(ts) : ~HasKey(ts[i], key)

\* C9: every Job event has at least one input and one output dataset; when no
\* Transform of the Job carries an input table the inputs are exactly 'raw_data',
\* and when none carries an output table the outputs are exactly '<job>_output'.
C9_NoEmptyInputsOrOutputs ==
    assemble_pc = "sent" =>
        /\ event.inputs # <<>>
        /\ event.outputs # <<>>
        /\ NoneHasKey(job_transforms, "input_table") => NamesOf(event.inputs) = <<"raw_data">>
        /\ NoneHasKey(job_transforms, "table")
              => NamesOf(event.outputs) = <<job_info.name \o "_output">>

\* C9 witness: an event was built from Transforms none of which names an input or
\* an output table, with the two synthesized datasets.
C9_Witness ==
    /\ assemble_pc = "sent"
    /\ Len(job_transforms) >= 2
    /\ NoneHasKey(job_transforms, "input_table")
    /\ NoneHasKey(job_transforms, "table")
    /\ NamesOf(event.inputs) = <<"raw_data">>
    /\ NamesOf(event.outputs) = <<"spark_pipeline_output">>

\* the ColumnLineageEntries an output dataset exposes
ColumnLineage(output) ==
    IF HasKey(output.facets, "fieldDefinitions")
    THEN output.facets.fieldDefinitions.fields
    ELSE <<>>

\* the column names of the first FieldDefinitionLimit Transforms contributing to a dataset
CappedColumns(dataset_name, ts) ==
    LET contributing == DatasetTransforms(dataset_name, ts)
    IN  {ColumnName(contributing[k], k - 1)
            : k \in {j \in 1..Len(contributing) : j <= FieldDefinitionLimit}}

\* C10 as stated: an output dataset with more than 10 contributing Transforms
\* exposes exactly 10 ColumnLineageEntries, and none exposes more than 10.
C10_ExactlyTenEntries ==
    assemble_pc = "sent" =>
        \A i \in 1..Len(event.outputs) :
            /\ Len(ColumnLineage(event.outputs[i])) <= FieldDefinitionLimit
            /\ Len(DatasetTransforms(event.outputs[i].name, job_transforms)) > FieldDefinitionLimit
                  => Len(ColumnLineage(event.outputs[i])) = FieldDefinitionLimit

\* C10 amended: an output dataset exposes one ColumnLineageEntry per distinct
\* column name among its first 10 contributing Transforms, so never more than 10,
\* and exactly 10 when more than 10 contribute and the first 10 name 10 different
\* columns; Transforms beyond the tenth add no entry.
C10_AtMostTenEntries ==
    assemble_pc = "sent" =>
        \A i \in 1..Len(event.outputs) :
            LET name == event.outputs[i].name
                entries == ColumnLineage(event.outputs[i])
            IN  /\ Len(entries) <= FieldDefinitionLimit
                /\ DictKeys(entries) = CappedColumns(name, job_transforms)
                /\ Len(entries) = Cardinality(CappedColumns(name, job_transforms))

\* C10 witness: a dataset with more than 10 contributing Transforms exposes exactly
\* 10 entries, and another event's dataset with more than 10 exposes fewer.
C10_Witness ==
    /\ assemble_pc = "sent"
    /\ \E i \in 1..Len(event.outputs) :
          /\ Len(DatasetTransforms(event.outputs[i].name, job_transforms)) = MaxTransforms
          /\ Len(ColumnLineage(event.outputs[i])) = FieldDefinitionLimit

\* the positions, in the Transforms contributing to a dataset, of those that
\* target the column
TargetingPositions(dataset_name, ts, column_name) ==
    LET contributing == DatasetTransforms(dataset_name, ts)
    IN  {k \in 1..Len(contributing) : ColumnName(contributing[k], k - 1) = column_name}

Max(S) == CHOOSE x \in S : \A y \in S : y <= x

\* C11: for every (output dataset, column) pair targeted by more than one
\* Transform of the Job, the dataset's ColumnLineageEntry for the column is the
\* one built from the last such Transform in the input order, however many
\* Transforms target the dataset.
C11_LastWriteWins ==
    assemble_pc = "sent" =>
        \A i \in 1..Len(event.outputs) :
            LET name == event.outputs[i].name
                contributing == DatasetTransforms(name, job_transforms)
                entries == ColumnLineage(event.outputs[i])
            IN  \A k \in 1..Len(contributing) :
                    LET column_name == ColumnName(contributing[k], k - 1)
                        positions == TargetingPositions(name, job_transforms, column_name)
                        last == Max(positions)
                    IN  Cardinality(positions) > 1 =>
                            /\ column_name \in DictKeys(entries)
                            /\ DictGet(entries, column_name, <<>>)
                                   = FieldDefinition(contributing[last], last - 1)

\* the Transforms from which the entries of an output dataset are built
Contributors(dataset_name, ts) ==
    LET capped == FirstN(DatasetTransforms(dataset_name, ts), FieldDefinitionLimit)
    IN  {capped[k] : k \in 1..Len(capped)}

\* C15: the assembler partitions a Job's Transforms by owner table: a Transform
\* contributes an entry only to the output dataset named as its table, so no
\* Transform is in the column mapping of two output datasets of the Job.
C15_PartitionByOwnerTable ==
    assemble_pc = "sent" =>
        /\ \A i \in 1..Len(event.outputs) :
              \A t \in Contributors(event.outputs[i].name, job_transforms) :
                  t.table = event.outputs[i].name
        /\ \A k \in 1..Len(job_transforms) :
              Cardinality({i \in 1..Len(event.outputs) :
                              job_transforms[k] \in Contributors(event.outputs[i].name,
                                                                 job_transforms)}) <= 1


\* C17: in every Job event, every input-field reference of every
\* ColumnLineageEntry names one of the input datasets of the same event, also
\* when only some of the Job's Transforms carry an input table.
C17_InputFieldsAreInputs ==
    assemble_pc = "sent" =>
        \A i \in 1..Len(event.outputs) :
            LET entries == ColumnLineage(event.outputs[i])
            IN  \A k \in 1..Len(entries) :
                    \A f \in 1..Len(entries[k][2].inputFields) :
                        entries[k][2].inputFields[f].name
                            \in {event.inputs[j].name : j \in 1..Len(event.inputs)}

---------------------------------------------------------------------------
(* working_comprehensive_loader.py: main and the delivery loop             *)

\* requests.put / requests.post got no response and raised (lines 28, 39)
NoResponse == 0

\* what a request to the sink may end in
SinkOutcomes == SinkStatuses \cup {NoResponse}

\* create_namespace returns True for every status instead of 200 and 201 only
NamespaceCreatedAlways(status) == TRUE

\* the value create_namespace returns (lines 30-35)
NamespaceCreated(status) == status \in {200, 201}

\* the value send_openlineage_event returns (lines 41-45)
SendOpenlineageEvent(status) == status \in {200, 201}

\* the loop over the jobs ends at the first event the sink refuses
NextIterationOnSuccessOnly(status) == SendOpenlineageEvent(status)

\* the loop of load_comprehensive_lineage goes on to the next job whatever
\* create_job_lineage_event printed (lines 78-80, 305-308)
NextIteration(status) == TRUE

LoadInit ==
    /\ SplitIdle
    /\ ClassIdle
    /\ ExtractIdle
    /\ AssembleIdle
    /\ main_pc = "start"
    /\ namespace_status = 0
    /\ job_index = 0
    /\ attempts = <<>>
    /\ delivered = {}

\* create_namespace (lines 18-35) and the test of its result in main (lines 402-404)
CreateNamespace ==
    /\ main_pc = "start"
    /\ \E status \in SinkOutcomes :
          /\ namespace_status' = status
          /\ main_pc' = IF status = NoResponse THEN "raised"
                        ELSE IF NamespaceCreated(status) THEN "loading"
                        ELSE "failed"
    /\ UNCHANGED <<job_index, attempts, delivered, splitVars, classVars, extractVars,
                   assembleVars>>

\* one iteration of the loop of load_comprehensive_lineage (lines 78-80):
\* create_job_lineage_event(job_info, []) builds the event and posts it
DeliverJob ==
    /\ main_pc = "loading"
    /\ job_index < Len(SampleJobs)
    /\ LET info == SampleJobs[job_index + 1]
       IN  \E input_order \in Orders(JobInputDatasets(<<>>)),
              output_order \in Orders(JobOutputDatasets(info.name, <<>>)),
              status \in SinkOutcomes :
                /\ attempts' = Append(attempts,
                                      [job |-> info.name,
                                       event |-> JobEvent(info, <<>>, input_order, output_order),
                                       status |-> status])
                /\ delivered' = IF status # NoResponse /\ SendOpenlineageEvent(status)
                                THEN delivered \cup {info.name}
                                ELSE delivered
                /\ job_index' = IF status = NoResponse THEN job_index ELSE job_index + 1
                /\ main_pc' = IF status = NoResponse THEN "raised"
                              ELSE IF NextIteration(status) THEN "loading"
                              ELSE "loaded"
    /\ UNCHANGED <<namespace_status, splitVars, classVars, extractVars, assembleVars>>

\* the loop is exhausted and main prints its closing lines (lines 409-416)
FinishMain ==
    /\ main_pc = "loading"
    /\ job_index = Len(SampleJobs)
    /\ main_pc' = "loaded"
    /\ UNCHANGED <<namespace_status, job_index, attempts, delivered, splitVars, classVars,
                   extractVars, assembleVars>>

LoadNext ==
    \/ CreateNamespace
    \/ DeliverJob
    \/ FinishMain

SpecLoad == LoadInit /\ [][LoadNext]_vars

\* the script runs each statement to completion
SpecLoadLive == LoadInit /\ [][LoadNext]_vars /\ WF_vars(LoadNext)

---------------------------------------------------------------------------
(* Claims about the delivery loop                                          *)

\* the sink answered the k-th attempt with a refusal
Refused(k) == attempts[k].status # NoResponse /\ ~SendOpenlineageEvent(attempts[k].status)

\* the attempts made so far are the first jobs in definition order, once each;
\* a refusal leaves the loop running; accepted events stay with the sink
DeliveryContinues ==
    /\ Len(attempts) <= Len(SampleJobs)
    /\ \A k \in 1..Len(attempts) : attempts[k].job = SampleJobs[k].name
    /\ \A k \in 1..Len(attempts) :
          (Refused(k) /\ k < Len(SampleJobs)) => (Len(attempts) > k \/ main_pc = "loading")
    /\ main_pc = "loaded" => Len(attempts) = Len(SampleJobs)
    /\ delivered = {attempts[k].job : k \in {j \in 1..Len(attempts) :
                                               /\ attempts[j].status # NoResponse
                                               /\ SendOpenlineageEvent(attempts[j].status)}}

\* C13: a refusal by the sink (non-2xx response) for one Job neither stops nor
\* undoes delivery: as long as the sink answers, every Job is attempted exactly
\* once, in definition order, whatever the answers before it, and the jobs
\* already delivered stay delivered.
C13_RefusalDoesNotStopDelivery ==
    /\ []DeliveryContinues
    /\ [][delivered \subseteq delivered']_vars
    /\ (main_pc = "loading") ~> (main_pc = "raised" \/ Len(attempts) = Len(SampleJobs))

\* C13 witness: the loop ended after the sink accepted the first Job, refused
\* the second and accepted the later ones.
C13_Witness ==
    /\ main_pc = "loaded"
    /\ Len(attempts) = Len(SampleJobs)
    /\ Refused(2)
    /\ delivered = {SampleJobs[k].name : k \in {1, 3, 4}}

\* C18: no lineage event is sent to the sink unless the namespace request
\* completed before it with status 200 or 201; when namespace creation fails,
\* no Job event is attempted.
C18_NoEventWithoutNamespace ==
    /\ attempts # <<>> => namespace_status \in {200, 201}
    /\ main_pc \in {"loading", "loaded"} => namespace_status \in {200, 201}
    /\ main_pc = "failed" => attempts = <<>> /\ job_index = 0

\* C18 witness: the sink refused the namespace request and main returned
\* without an attempt.
C18_Witness ==
    /\ main_pc = "failed"
    /\ namespace_status = 500
    /\ attempts = <<>>

===========================================================================
